---- MODULE Spec2Model ----
(***************************************************************************)
(* The save pipeline of mimic's query layer (db/query/src/save.rs): a      *)
(* SaveBuilder is given a mode and one or many entities, and its executor  *)
(* runs every entity through on_create / sanitize / key resolution /       *)
(* validate / serialize / conflict resolution / insert.                    *)
(*                                                                         *)
(* The entity capabilities (on_create, sanitize, validate, serialize), the *)
(* Resolver and the clock are not part of save.rs; they are modelled from  *)
(* their description and kept apart from the operators translated from     *)
(* save.rs.                                                                *)
(***************************************************************************)
EXTENDS Integers, Sequences, FiniteSets, TLC

\* ------------------------------------------------------------------ bounds

\* the clock reads 0..MaxTime
MaxTime == 2
\* from_entities is given at most MaxBatch entities
MaxBatch == 3

Times == 0..MaxTime

\* ------------------------------------------------------- entities (inputs)

\* SaveMode
SaveModes == {"Create", "Replace", "Update"}

\* logical paths: "user" is registered in the schema, "ghost" is not
Paths == {"user", "ghost"}
StorePaths == {"users", "items"}

\* an entity's id field: NoId is an id not generated yet, SuppliedIds are the ids
\* callers set themselves, GeneratedId is the id on_create generates
NoId == "none"
SuppliedIds == {"alice"}
GeneratedId == "gen"
Ids == SuppliedIds \cup {GeneratedId}

\* an entity's content: clean, in need of sanitizing, invalid, unserializable
Bodies == {"v1", " v2 ", "", "#"}

Entities == [path : Paths, id : SuppliedIds \cup {NoId}, body : Bodies]

\* SaveOptions::default
DefaultOptions == [sanitize |-> TRUE, validate |-> TRUE]

\* SaveBuilderConfig: the default options, and the debug context that
\* SaveBuilder::new leaves disabled and SaveBuilder::debug enables
SaveBuilderConfig(debug) ==
    [sanitize |-> DefaultOptions.sanitize, validate |-> DefaultOptions.validate,
     debug |-> debug]

\* ------------------------------------------- entity capabilities (opaque)

\* EntityDynamic::on_create: generates the id of an entity that has none
OnCreate(e) == IF e.id = NoId THEN [e EXCEPT !.id = GeneratedId] ELSE e

\* orm::sanitize: trims the content
Sanitize(e) == IF e.body = " v2 " THEN [e EXCEPT !.body = "v2"] ELSE e

\* orm::validate: the content is neither empty nor untrimmed
Validate(e) == e.body \notin {"", " v2 "}

\* EntityDynamic::serialize_dyn: fails on "#", otherwise the bytes of id and body
CanSerialize(e) == e.body # "#"

IdByte(id) == CASE id = "alice" -> 1 [] id = "gen" -> 2 [] OTHER -> 0

BodyByte(b) == CASE b = "v1" -> 11 [] b = "v2" -> 12 [] b = " v2 " -> 13 [] OTHER -> 10

Serialize(e) == <<IdByte(e.id), BodyByte(e.body)>>

\* EntityDynamic::composite_key_dyn
CompositeKey(e) == e.id

\* ---------------------------------------------------------------- Resolver

\* Resolver::data_key: fails on a malformed composite key
CanResolveKey(path, ck) == ck # NoId

ResolveKey(path, ck) == [path |-> path, ck |-> ck]

\* Resolver::store: fails when the path is not registered in the schema
CanResolveStore(path) == path = "user"

ResolveStore(path) == IF path = "user" THEN "users" ELSE "items"

DataKeys == [path : Paths, ck : Ids]

\* ------------------------------------------------------------------- store

\* Option<DataValue>
None == <<>>

Some(value) == <<value>>

DataValue(data, created, modified) ==
    [data |-> data, metadata |-> [created |-> created, modified |-> modified]]

DataRow(key, value) == [key |-> key, value |-> value]

\* db.with_store(&store_path, |store| Ok(store.get(&key)))
StoreGet(d, store_path, key) ==
    IF key \in DOMAIN d[store_path] THEN Some(d[store_path][key]) ELSE None

\* the insert that leaves the store with the inserted entry alone
StoreInsertAlone(d, store_path, key, value) ==
    [d EXCEPT ![store_path] = [k \in {key} |-> value]]

\* db.with_store_mut(&store_path, |store| store.data.insert(key, value))
StoreInsert(d, store_path, key, value) ==
    [d EXCEPT ![store_path] =
        [k \in DOMAIN @ \cup {key} |-> IF k = key THEN value ELSE @[k]]]

\* a store is a map from the keys it holds to their values
EmptyDb == [s \in StorePaths |-> <<>>]

\* -------------------------------------------------------------- the pipeline

NoKey == [path |-> "", ck |-> NoId]

NoRow == DataRow(NoKey, DataValue(<<>>, 0, 0))

TsOk(created, modified) ==
    [ok |-> TRUE, error |-> "", created |-> created, modified |-> modified]

TsErr(error) == [ok |-> FALSE, error |-> error, created |-> 0, modified |-> 0]

\* the overwrite arm shared by Update and Replace: created is kept, modified
\* moves only when the bytes differ
Overwrite(old, data, now) ==
    TsOk(old.metadata.created,
         IF data = old.data THEN old.metadata.modified ELSE now)

\* variants of the match with one slip each
MutantTimestamps(mode, result, data, now, slip) ==
    LET over(old) ==
            CASE slip = "always-bump" -> TsOk(old.metadata.created, now)
              [] slip = "created-now" ->
                   TsOk(now, IF data = old.data THEN old.metadata.modified ELSE now)
              [] slip = "created-reset" ->
                   TsOk(0, IF data = old.data THEN old.metadata.modified ELSE now)
              [] slip = "swapped" ->
                   TsOk(IF data = old.data THEN old.metadata.modified ELSE now,
                        old.metadata.created)
              [] OTHER -> Overwrite(old, data, now)
    IN  CASE mode = "Create" ->
               IF result # None
               THEN (IF slip = "create-overwrites"
                     THEN over(result[1]) ELSE TsErr("KeyExists"))
               ELSE TsOk(now, now)
          [] mode = "Update" ->
               IF result # None THEN over(result[1])
               ELSE (IF slip = "update-upserts"
                     THEN TsOk(now, now) ELSE TsErr("KeyNotFound"))
          [] OTHER ->
               IF result # None
               THEN (IF slip = "replace-bumps"
                     THEN TsOk(result[1].metadata.created, now)
                     ELSE over(result[1]))
               ELSE (IF slip = "replace-needs-key"
                     THEN TsErr("KeyNotFound") ELSE TsOk(now, now))

ModeTimestampsCreateOverwrites(mode, result, data, now) ==
    MutantTimestamps(mode, result, data, now, "create-overwrites")

ModeTimestampsUpdateUpserts(mode, result, data, now) ==
    MutantTimestamps(mode, result, data, now, "update-upserts")

ModeTimestampsReplaceNeedsKey(mode, result, data, now) ==
    MutantTimestamps(mode, result, data, now, "replace-needs-key")

ModeTimestampsAlwaysBump(mode, result, data, now) ==
    MutantTimestamps(mode, result, data, now, "always-bump")

ModeTimestampsCreatedNow(mode, result, data, now) ==
    MutantTimestamps(mode, result, data, now, "created-now")

ModeTimestampsCreatedReset(mode, result, data, now) ==
    MutantTimestamps(mode, result, data, now, "created-reset")

ModeTimestampsReplaceBumps(mode, result, data, now) ==
    MutantTimestamps(mode, result, data, now, "replace-bumps")

\* the overwrite arms return (modified, created) in the place of (created, modified)
ModeTimestampsSwapped(mode, result, data, now) ==
    MutantTimestamps(mode, result, data, now, "swapped")

\* the match on the mode: the (created, modified) pair of the value to write,
\* or the conflict error
ModeTimestamps(mode, result, data, now) ==
    CASE mode = "Create" ->
           IF result # None THEN TsErr("KeyExists") ELSE TsOk(now, now)
      [] mode = "Update" ->
           IF result # None
           THEN Overwrite(result[1], data, now)
           ELSE TsErr("KeyNotFound")
      [] OTHER ->
           IF result # None
           THEN Overwrite(result[1], data, now)
           ELSE TsOk(now, now)

\* what execute_one hands back for one entity: the db it leaves, Ok(row) or
\* Err(error), the key it resolved (NoKey before data_key succeeded), the entity
\* as the hooks left it, the steps it ran, in order, and the lines it printed
ItemErr(d, error, key, entity, steps) ==
    [db |-> d,
     item |-> [ok |-> FALSE, error |-> error, key |-> key, row |-> NoRow,
               entity |-> entity, steps |-> steps, trace |-> <<>>]]

ItemOk(d, row, entity, steps) ==
    [db |-> d,
     item |-> [ok |-> TRUE, error |-> "", key |-> row.key, row |-> row,
               entity |-> entity, steps |-> steps, trace |-> <<>>]]

\* the entity after the mutating hooks: on_create in Create mode, then sanitize
PreMutate(mode, options, entity) ==
    LET created == IF mode = "Create" THEN OnCreate(entity) ELSE entity
    IN  IF options.sanitize THEN Sanitize(created) ELSE created

PreSteps(mode, options) ==
    (IF mode = "Create" THEN <<"on_create">> ELSE <<>>)
    \o (IF options.sanitize THEN <<"sanitize">> ELSE <<>>)

\* Commit with the insert moved before the conflict check
CommitInsertFirst(d, mode, entity, key, data, now, steps) ==
    IF ~CanResolveStore(entity.path)
    THEN ItemErr(d, "Resolution", key, entity, steps \o <<"store">>)
    ELSE LET store_path == ResolveStore(entity.path)
             result == StoreGet(d, store_path, key)
             ts == ModeTimestamps(mode, result, data, now)
             value == DataValue(data, ts.created, ts.modified)
             written == StoreInsert(d, store_path, key, value)
         IN  IF ~ts.ok
             THEN ItemErr(written, ts.error, key, entity,
                          steps \o <<"store", "get", "match">>)
             ELSE ItemOk(written, DataRow(key, value), entity,
                         steps \o <<"store", "get", "match", "insert">>)

\* conflict resolution and commit: the part of execute_one after serialize
Commit(d, mode, entity, key, data, now, steps) ==
    IF ~CanResolveStore(entity.path)
    THEN ItemErr(d, "Resolution", key, entity, steps \o <<"store">>)
    ELSE LET store_path == ResolveStore(entity.path)
             result == StoreGet(d, store_path, key)
             ts == ModeTimestamps(mode, result, data, now)
             value == DataValue(data, ts.created, ts.modified)
         IN  IF ~ts.ok
             THEN ItemErr(d, ts.error, key, entity, steps \o <<"store", "get", "match">>)
             ELSE ItemOk(StoreInsert(d, store_path, key, value), DataRow(key, value),
                         entity, steps \o <<"store", "get", "match", "insert">>)

\* execute_one with the store path resolved together with the key, before
\* validation
ExecuteOneStoreFirst(d, mode, options, entity0, now) ==
    LET entity == PreMutate(mode, options, entity0)
        s0 == PreSteps(mode, options)
        ck == CompositeKey(entity)
        s1 == s0 \o <<"data_key">>
        key == ResolveKey(entity.path, ck)
        s2 == IF options.validate THEN s1 \o <<"store", "validate">> ELSE s1 \o <<"store">>
        s3 == s2 \o <<"serialize">>
    IN  IF ~CanResolveKey(entity.path, ck)
        THEN ItemErr(d, "Resolution", NoKey, entity, s1)
        ELSE IF ~CanResolveStore(entity.path)
        THEN ItemErr(d, "Resolution", key, entity, s1 \o <<"store">>)
        ELSE IF options.validate /\ ~Validate(entity)
        THEN ItemErr(d, "Validation", key, entity, s2)
        ELSE IF ~CanSerialize(entity)
        THEN ItemErr(d, "Serialize", key, entity, s3)
        ELSE LET r == Commit(d, mode, entity, key, Serialize(entity), now, <<>>)
             IN  [r EXCEPT !.item.steps = s3 \o Tail(@)]

\* execute_one with the on_create hook invoked in every mode
ExecuteOneHookAlways(d, mode, options, entity0, now) ==
    LET entity == PreMutate("Create", options, entity0)
        s0 == PreSteps("Create", options)
        ck == CompositeKey(entity)
        s1 == s0 \o <<"data_key">>
        key == ResolveKey(entity.path, ck)
        s2 == IF options.validate THEN s1 \o <<"validate">> ELSE s1
        s3 == s2 \o <<"serialize">>
    IN  IF ~CanResolveKey(entity.path, ck)
        THEN ItemErr(d, "Resolution", NoKey, entity, s1)
        ELSE IF options.validate /\ ~Validate(entity)
        THEN ItemErr(d, "Validation", key, entity, s2)
        ELSE IF ~CanSerialize(entity)
        THEN ItemErr(d, "Serialize", key, entity, s3)
        ELSE Commit(d, mode, entity, key, Serialize(entity), now, s3)

\* execute_one with validation run on the entity as submitted, before sanitize
ExecuteOneValidateFirst(d, mode, options, entity0, now) ==
    LET raw == IF mode = "Create" THEN OnCreate(entity0) ELSE entity0
        entity == PreMutate(mode, options, entity0)
        s0 == PreSteps(mode, options)
        ck == CompositeKey(entity)
        s1 == s0 \o <<"data_key">>
        key == ResolveKey(entity.path, ck)
        s2 == IF options.validate THEN s1 \o <<"validate">> ELSE s1
        s3 == s2 \o <<"serialize">>
    IN  IF ~CanResolveKey(entity.path, ck)
        THEN ItemErr(d, "Resolution", NoKey, entity, s1)
        ELSE IF options.validate /\ ~Validate(raw)
        THEN ItemErr(d, "Validation", key, entity, s2)
        ELSE IF ~CanSerialize(entity)
        THEN ItemErr(d, "Serialize", key, entity, s3)
        ELSE Commit(d, mode, entity, key, Serialize(entity), now, s3)

\* self.config.debug.println(&format!("store.{}: {}", mode, key)): the line is
\* printed when the debug context is enabled
DebugPrintln(options, mode, key) ==
    IF options.debug THEN <<[mode |-> mode, key |-> key]>> ELSE <<>>

\* execute_one with validation left out when the debug context is enabled
ExecuteOneDebugSkipsValidate(d, mode, options, entity0, now) ==
    LET entity == PreMutate(mode, options, entity0)
        s0 == PreSteps(mode, options)
        ck == CompositeKey(entity)
        s1 == s0 \o <<"data_key">>
        key == ResolveKey(entity.path, ck)
        s2 == IF options.validate THEN s1 \o <<"validate">> ELSE s1
        s3 == s2 \o <<"serialize">>
        r == IF options.validate /\ ~options.debug /\ ~Validate(entity)
             THEN ItemErr(d, "Validation", key, entity, s2)
             ELSE IF ~CanSerialize(entity)
             THEN ItemErr(d, "Serialize", key, entity, s3)
             ELSE Commit(d, mode, entity, key, Serialize(entity), now, s3)
    IN  IF ~CanResolveKey(entity.path, ck)
        THEN ItemErr(d, "Resolution", NoKey, entity, s1)
        ELSE [r EXCEPT !.item.trace = DebugPrintln(options, mode, key)]

\* SaveBuilderExecutor::execute_one
ExecuteOne(d, mode, options, entity0, now) ==
    LET entity == PreMutate(mode, options, entity0)
        s0 == PreSteps(mode, options)
        ck == CompositeKey(entity)
        s1 == s0 \o <<"data_key">>
        key == ResolveKey(entity.path, ck)
        s2 == IF options.validate THEN s1 \o <<"validate">> ELSE s1
        s3 == s2 \o <<"serialize">>
        r == IF options.validate /\ ~Validate(entity)
             THEN ItemErr(d, "Validation", key, entity, s2)
             ELSE IF ~CanSerialize(entity)
             THEN ItemErr(d, "Serialize", key, entity, s3)
             ELSE Commit(d, mode, entity, key, Serialize(entity), now, s3)
    IN  IF ~CanResolveKey(entity.path, ck)
        THEN ItemErr(d, "Resolution", NoKey, entity, s1)
        ELSE [r EXCEPT !.item.trace = DebugPrintln(options, mode, key)]

\* SaveBuilderExecutor::execute: the entities in input order, the first error
\* ends the loop; `done` is what execute_one returned for each entity it ran
RECURSIVE ExecuteFrom(_, _, _, _, _, _, _)
ExecuteFrom(d, mode, options, entities, now, i, done) ==
    IF i > Len(entities)
    THEN [db |-> d, ok |-> TRUE, items |-> done]
    ELSE LET r == ExecuteOne(d, mode, options, entities[i], now)
         IN  IF ~r.item.ok
             THEN [db |-> r.db, ok |-> FALSE, items |-> Append(done, r.item)]
             ELSE ExecuteFrom(r.db, mode, options, entities, now, i + 1,
                              Append(done, r.item))

\* execute that goes on to the next entity after an error
RECURSIVE ExecuteOnFrom(_, _, _, _, _, _, _, _)
ExecuteOnFrom(d, mode, options, entities, now, i, done, ok) ==
    IF i > Len(entities)
    THEN [db |-> d, ok |-> ok, items |-> done]
    ELSE LET r == ExecuteOne(d, mode, options, entities[i], now)
         IN  ExecuteOnFrom(r.db, mode, options, entities, now, i + 1,
                           IF ok THEN Append(done, r.item) ELSE done,
                           ok /\ r.item.ok)

ExecuteContinue(d, mode, options, entities, now) ==
    ExecuteOnFrom(d, mode, options, entities, now, 1, <<>>, TRUE)

\* execute that undoes the batch's inserts when an entity fails
ExecuteRollback(d, mode, options, entities, now) ==
    LET x == ExecuteFrom(d, mode, options, entities, now, 1, <<>>)
    IN  IF x.ok THEN x ELSE [x EXCEPT !.db = d]

\* execute that runs every entity's conflict check on the stores as they were
\* when the call started, and inserts into the stores as they are
RECURSIVE ExecuteSnapshotFrom(_, _, _, _, _, _, _, _)
ExecuteSnapshotFrom(d0, d, mode, options, entities, now, i, done) ==
    IF i > Len(entities)
    THEN [db |-> d, ok |-> TRUE, items |-> done]
    ELSE LET r == ExecuteOne(d0, mode, options, entities[i], now)
         IN  IF ~r.item.ok
             THEN [db |-> d, ok |-> FALSE, items |-> Append(done, r.item)]
             ELSE ExecuteSnapshotFrom(
                      d0,
                      StoreInsert(d, ResolveStore(r.item.entity.path),
                                  r.item.row.key, r.item.row.value),
                      mode, options, entities, now, i + 1, Append(done, r.item))

ExecuteSnapshot(d, mode, options, entities, now) ==
    ExecuteSnapshotFrom(d, d, mode, options, entities, now, 1, <<>>)

Execute(d, mode, options, entities, now) ==
    ExecuteFrom(d, mode, options, entities, now, 1, <<>>)

\* the rows collected newest first
RowsNewestFirst(done) == [i \in 1..Len(done) |-> done[Len(done) + 1 - i].row]

\* results.push(data_row) for every entity in turn
Rows(done) == [i \in 1..Len(done) |-> done[i].row]

\* SaveBuilder::execute: Ok(SaveBuilderResult::new(results)), or the error alone
BuilderExecute(d, mode, options, entities, now) ==
    LET x == Execute(d, mode, options, entities, now)
        last == x.items[Len(x.items)]
    IN  [db |-> x.db, items |-> x.items,
         result |-> IF x.ok
                    THEN [ok |-> TRUE, error |-> "", key |-> NoKey,
                          results |-> Rows(x.items)]
                    ELSE [ok |-> FALSE, error |-> last.error, key |-> last.key,
                          results |-> <<>>]]

\* -------------------------------------------------------- SaveBuilderResult

\* orm::deserialize: the entity of type `E` the payload bytes decode to
IdOfByte(b) == CASE b = 1 -> "alice" [] b = 2 -> "gen" [] OTHER -> NoId

BodyOfByte(b) == CASE b = 11 -> "v1" [] b = 12 -> "v2" [] b = 13 -> " v2 " [] OTHER -> ""

Deserialize(E, data) == [path |-> E, id |-> IdOfByte(data[1]), body |-> BodyOfByte(data[2])]

\* QueryRow::from(DataRow): the row with the path its key names
IntoQueryRow(row) ==
    [key |-> row.key,
     value |-> [path |-> row.key.path, data |-> row.value.data,
                metadata |-> row.value.metadata]]

\* EntityRow::<E>::try_from(DataRow): fails when the row is not one of an E
CanDecode(E, row) == row.key.path = E /\ Len(row.value.data) = 2

TryIntoEntityRow(E, row) ==
    [key |-> row.key,
     value |-> [entity |-> Deserialize(E, row.value.data),
                metadata |-> row.value.metadata]]

\* what an accessor returns: Ok(value) or Err(error)
AccOk(accessor, E, value) ==
    [accessor |-> accessor, E |-> E, ok |-> TRUE, error |-> "", value |-> <<value>>]

AccErr(accessor, E, error) ==
    [accessor |-> accessor, E |-> E, ok |-> FALSE, error |-> error, value |-> <<>>]

NoAccess == [accessor |-> "", E |-> "", ok |-> FALSE, error |-> "", value |-> <<>>]

\* results.last() in the place of results.first()
FirstAsLast(results) == IF results = <<>> THEN None ELSE Some(results[Len(results)])

\* self.results.first()
First(results) == IF results = <<>> THEN None ELSE Some(results[1])

\* SaveBuilderResult::query_row
query_row(results) ==
    IF First(results) = None
    THEN AccErr("query_row", "", "NoResultsFound")
    ELSE AccOk("query_row", "", IntoQueryRow(First(results)[1]))

\* SaveBuilderResult::entity_row::<E>
entity_row(E, results) ==
    IF First(results) = None
    THEN AccErr("entity_row", E, "NoResultsFound")
    ELSE IF ~CanDecode(E, First(results)[1])
    THEN AccErr("entity_row", E, "Decode")
    ELSE AccOk("entity_row", E, TryIntoEntityRow(E, First(results)[1]))

\* SaveBuilderResult::entity::<E>
entity_of(E, results) ==
    IF First(results) = None
    THEN AccErr("entity", E, "NoResultsFound")
    ELSE IF ~CanDecode(E, First(results)[1])
    THEN AccErr("entity", E, "Decode")
    ELSE AccOk("entity", E, TryIntoEntityRow(E, First(results)[1]).value.entity)

\* ----------------------------------------------- execute_one in two phases

\* execute_one up to the conflict-check read (store.get): the error it returns
\* before it, or what it holds when the read is done
ReadPhase(d, mode, options, entity0, now) ==
    LET entity == PreMutate(mode, options, entity0)
        s0 == PreSteps(mode, options)
        ck == CompositeKey(entity)
        s1 == s0 \o <<"data_key">>
        key == ResolveKey(entity.path, ck)
        s2 == IF options.validate THEN s1 \o <<"validate">> ELSE s1
        s3 == s2 \o <<"serialize">>
        fail(error, k, steps) ==
            [failed |-> TRUE, item |-> ItemErr(d, error, k, entity, steps).item,
             entity |-> entity, key |-> k, data |-> <<>>, now |-> now,
             store_path |-> "", result |-> None, steps |-> steps]
    IN  IF ~CanResolveKey(entity.path, ck)
        THEN fail("Resolution", NoKey, s1)
        ELSE IF options.validate /\ ~Validate(entity)
        THEN fail("Validation", key, s2)
        ELSE IF ~CanSerialize(entity)
        THEN fail("Serialize", key, s3)
        ELSE IF ~CanResolveStore(entity.path)
        THEN fail("Resolution", key, s3 \o <<"store">>)
        ELSE [failed |-> FALSE, item |-> ItemErr(d, "", key, entity, s3).item,
              entity |-> entity, key |-> key, data |-> Serialize(entity),
              now |-> now, store_path |-> ResolveStore(entity.path),
              result |-> StoreGet(d, ResolveStore(entity.path), key),
              steps |-> s3 \o <<"store", "get">>]

\* execute_one from the match on the mode to the insert, on what the read
\* phase holds
WritePhase(d, mode, p) ==
    LET ts == ModeTimestamps(mode, p.result, p.data, p.now)
        value == DataValue(p.data, ts.created, ts.modified)
    IN  IF ~ts.ok
        THEN ItemErr(d, ts.error, p.key, p.entity, p.steps \o <<"match">>)
        ELSE ItemOk(StoreInsert(d, p.store_path, p.key, value), DataRow(p.key, value),
                    p.entity, p.steps \o <<"match", "insert">>)

\* execute_one with a suspension point between the read and the insert
ExecuteOneSuspendsAtGet == TRUE

\* execute_one is a plain fn with no await: the host runs it to its end
ExecuteOneSuspends == FALSE

\* the callers that share the stores, and the entities they save
Callers == {"c1", "c2"}

Nobody == "nobody"

RaceEntities == {e \in Entities : e.path = "user" /\ e.body \in {"v1", " v2 ", ""}}

NoPending ==
    [pc |-> "none", mode |-> "",
     p |-> [failed |-> FALSE, item |-> ItemErr(EmptyDb, "", NoKey, [path |-> "", id |-> NoId, body |-> ""], <<>>).item,
            entity |-> [path |-> "", id |-> NoId, body |-> ""], key |-> NoKey,
            data |-> <<>>, now |-> 0, store_path |-> "", result |-> None,
            steps |-> <<>>]]

\* a returned save: who ran it, in what mode, for what key, what it read at the
\* key, what the store held there when its second phase began, and its outcome
Ret(c, mode, p, prior, item) ==
    [caller |-> c, mode |-> mode, key |-> p.key, read |-> p.result,
     prior |-> prior, reached |-> ~p.failed, ok |-> item.ok, error |-> item.error]

NoRet ==
    [caller |-> Nobody, mode |-> "", key |-> NoKey, read |-> None,
     prior |-> None, reached |-> FALSE, ok |-> FALSE, error |-> ""]

\* ----------------------------------------------- remote requests (request.rs)

\* the cycles a balance or a schema setting can amount to
MaxCycles == 2

Principals == {"p1", "p2"}

NoPrincipal == "none"

CanisterPaths == {"user", "game"}

\* Response
ResponseCanisterCreate(id) == [variant |-> "CanisterCreate", id |-> id]

ResponseCanisterUpgrade == [variant |-> "CanisterUpgrade", id |-> NoPrincipal]

ResponseCycles == [variant |-> "Cycles", id |-> NoPrincipal]

Responses ==
    {ResponseCanisterCreate(id) : id \in Principals}
        \cup {ResponseCanisterUpgrade, ResponseCycles}

NoResponse == [variant |-> "", id |-> NoPrincipal]

\* Request::new_canister_create, new_canister_upgrade, new_cycles
NewCanisterCreate(path) ==
    [kind |-> "CanisterCreate", path |-> path, canister_id |-> NoPrincipal, cycles |-> 0]

NewCanisterUpgrade(canister_id, path) ==
    [kind |-> "CanisterUpgrade", path |-> path, canister_id |-> canister_id, cycles |-> 0]

NewCycles(cycles) ==
    [kind |-> "Cycles", path |-> "", canister_id |-> NoPrincipal, cycles |-> cycles]

NotSent == [kind |-> "", path |-> "", canister_id |-> NoPrincipal, cycles |-> 0]

\* Result<_, Error>: the value of an Ok is a Response, a Principal or "()"
Ok(value) == [ok |-> TRUE, value |-> <<value>>, error |-> "", response |-> NoResponse]

Err(error) == [ok |-> FALSE, value |-> <<>>, error |-> error, response |-> NoResponse]

\* RequestError::InvalidResponse { response }
InvalidResponse(response) ==
    [ok |-> FALSE, value |-> <<>>, error |-> "InvalidResponse", response |-> response]

NoReturn == [ok |-> FALSE, value |-> <<>>, error |-> "", response |-> NoResponse]

\* what the call to the root's "response" endpoint can complete with: the call
\* itself fails, the root answers an error, or the root answers a Response
Replies ==
    {Err("CallFailed"), Err("RootError")} \cup {Ok(r) : r \in Responses}

\* response with the arms of Cycles and CanisterUpgrade answering each other's
\* variant
responseCrossed(req, wasm, done, new_canister_id) ==
    CASE req.kind = "CanisterCreate" ->
           IF wasm /\ done THEN Ok(ResponseCanisterCreate(new_canister_id))
           ELSE Err("RootError")
      [] req.kind = "CanisterUpgrade" ->
           IF wasm /\ done THEN Ok(ResponseCycles) ELSE Err("RootError")
      [] OTHER ->
           IF done THEN Ok(ResponseCanisterUpgrade) ELSE Err("RootError")

\* response (root): the match on the request kind. `wasm` is whether
\* WasmManager::get_wasm finds the bytes of the path, `done` whether the
\* operation on the management canister (create_canister, upgrade_canister,
\* deposit_cycles) succeeds, and `new_canister_id` the id create_canister
\* returns; each failure is returned by `?`
response(req, wasm, done, new_canister_id) ==
    CASE req.kind = "CanisterCreate" ->
           IF ~wasm THEN Err("RootError")
           ELSE IF ~done THEN Err("RootError")
           ELSE Ok(ResponseCanisterCreate(new_canister_id))
      [] req.kind = "CanisterUpgrade" ->
           IF ~wasm THEN Err("RootError")
           ELSE IF ~done THEN Err("RootError")
           ELSE Ok(ResponseCanisterUpgrade)
      [] OTHER ->
           IF ~done THEN Err("RootError") ELSE Ok(ResponseCycles)

\* ChildIndexManager::add_canister
AddCanister(index, id, path) ==
    [c \in DOMAIN index \cup {id} |-> IF c = id THEN path ELSE index[c]]

\* request_canister_create after request(req).await, with the update of the
\* child index left out
CreateDoneForgetsIndex(index, path, res) ==
    IF res.ok
    THEN IF res.value[1].variant = "CanisterCreate"
         THEN [index |-> index, ret |-> Ok(res.value[1].id)]
         ELSE [index |-> index, ret |-> InvalidResponse(res.value[1])]
    ELSE [index |-> index, ret |-> res]

\* request_canister_create after request(req).await: the child index it leaves
\* and what it returns
CreateDone(index, path, res) ==
    IF res.ok
    THEN IF res.value[1].variant = "CanisterCreate"
         THEN [index |-> AddCanister(index, res.value[1].id, path),
               ret |-> Ok(res.value[1].id)]
         ELSE [index |-> index, ret |-> InvalidResponse(res.value[1])]
    ELSE [index |-> index, ret |-> res]

\* request_canister_upgrade after request(req).await?
UpgradeDone(res) == IF res.ok THEN Ok("()") ELSE res

\* request_cycles after request(req).await?
CyclesDone(res) ==
    IF res.ok
    THEN IF res.value[1].variant = "Cycles"
         THEN Ok("()") ELSE InvalidResponse(res.value[1])
    ELSE res

\* the cycles are unsigned integers of a fixed width (u128 in the code, the
\* values 0..MaxCycles here): a subtraction below 0 wraps around
CyclesModulus == MaxCycles + 1

WrappingSub(a, b) == (a - b) % CyclesModulus

\* cycles_needed with the subtraction made whenever the balance is under the
\* minimum
CyclesNeededUnguarded(balance, initial_cycles, min_cycles) ==
    IF balance < min_cycles
    THEN WrappingSub(initial_cycles, balance) ELSE 0

\* request_cycles: the cycles to ask the root for
CyclesNeeded(balance, initial_cycles, min_cycles) ==
    IF balance < min_cycles /\ initial_cycles > balance
    THEN WrappingSub(initial_cycles, balance) ELSE 0

\* what request_cycles read before it decided: whether the schema was there, and
\* the root id when request() looked for it, the balance, and the schema's
\* initial_cycles and min_cycles (0 when there is no schema to read them from)
Check(schema, root, balance, initial_cycles, min_cycles) ==
    [schema |-> schema, root |-> root, balance |-> balance,
     initial_cycles |-> initial_cycles, min_cycles |-> min_cycles]

NoCheck == Check(FALSE, FALSE, 0, 0, 0)

NoRequest ==
    [pc |-> "idle", fn |-> "", path |-> "", request |-> NotSent, calls |-> 0,
     reply |-> NoReturn, ret |-> NoReturn, index0 |-> <<>>, check |-> NoCheck]

\* ------------------------------------------------- BTreeMap (btreemap.rs)

\* the keys a map is given are 1..MaxKey
MaxKey == 3

MapKeys == 1..MaxKey

MapValues == {"x", "y"}

\* WrappedBTreeMap::iter: the entries (key, value) in ascending key order
RECURSIVE Entries(_)
Entries(t) ==
    IF DOMAIN t = {} THEN <<>>
    ELSE LET k == CHOOSE m \in DOMAIN t : \A n \in DOMAIN t : m <= n
         IN  <<(<<k, t[k]>>)>> \o Entries([n \in DOMAIN t \ {k} |-> t[n]])

\* keys() with the entries taken from the last to the first
KeysBackwards(t) ==
    LET es == Entries(t) IN [i \in 1..Len(es) |-> es[Len(es) + 1 - i][1]]

\* BTreeMap::keys: self.data.iter().map(|(k, _)| k)
Keys(t) == LET es == Entries(t) IN [i \in 1..Len(es) |-> es[i][1]]

\* BTreeMap::values: self.data.iter().map(|(_, v)| v)
Values(t) == LET es == Entries(t) IN [i \in 1..Len(es) |-> es[i][2]]

\* the items an iterator of `kind` yields over the map, in order
Items(kind, t) == IF kind = "keys" THEN Keys(t) ELSE Values(t)

\* no iterator is held; `last` is what the iterator held before yielded in all
\* (kept until the map changes)
NoIter ==
    [kind |-> "", pos |-> 0, out |-> <<>>, ended |-> FALSE, tree0 |-> <<>>,
     last |-> [kind |-> "", out |-> <<>>]]

\* ------------------------------------------------------------------- state

VARIABLES
    db,       \* the stores: store path -> key -> value
    clock,    \* what Timestamp::now() reads
    pc,       \* "idle", or "done" while a caller holds a call's result
    call,     \* the call that ran last: its mode, its entities, the clock it read
    returned, \* what that call returned
    items,    \* what execute_one returned for each entity the call ran
    before,   \* the stores as they were when that call started
    createdKeys, \* history: the keys written by a successful Create
    running,  \* the caller whose message the host is executing, or Nobody
    proc,     \* per caller: the save it has under way, between get and insert
    lastRet,  \* the save that returned last, when callers share the stores
    printed,  \* the lines the debug context printed during that call
    accessed, \* what the single-item accessor used on the result returned
    childIndex, \* ChildIndexManager: canister id -> canister path
    rq,       \* the remote request under way: where it is, what it sent and got
    tree,     \* a BTreeMap: the entries it holds, key -> value
    iter      \* the iterator keys() or values() returned, while the caller holds it

vars == <<db, clock, pc, call, returned, items, before, createdKeys,
          running, proc, lastRet, printed, accessed, childIndex, rq, tree, iter>>

\* the state of the callers that share the stores
callers == <<running, proc, lastRet>>

\* the state no save touches
aside == <<accessed, childIndex, rq, tree, iter>>

\* the state no remote request touches
local == <<db, clock, pc, call, returned, items, before, createdKeys,
           running, proc, lastRet, printed, accessed, tree, iter>>

\* the state no operation of a BTreeMap touches
mapless == <<db, clock, pc, call, returned, items, before, createdKeys,
             running, proc, lastRet, printed, accessed, childIndex, rq>>

NoCall == [mode |-> "", entities |-> <<>>, now |-> 0, debug |-> FALSE]

NoResult == [ok |-> TRUE, error |-> "", key |-> NoKey, results |-> <<>>]

Init ==
    /\ db = EmptyDb
    /\ clock = 0
    /\ pc = "idle"
    /\ call = NoCall
    /\ returned = NoResult
    /\ items = <<>>
    /\ before = EmptyDb
    /\ createdKeys = {}
    /\ printed = <<>>
    /\ running = Nobody
    /\ proc = [c \in Callers |-> NoPending]
    /\ lastRet = NoRet
    /\ accessed = NoAccess
    /\ childIndex = <<>>
    /\ rq = NoRequest
    /\ tree = <<>>
    /\ iter = NoIter

\* the lines printed during a call: those of its entities, in order
RECURSIVE Printed(_)
Printed(done) ==
    IF done = <<>> THEN <<>> ELSE done[1].trace \o Printed(Tail(done))

\* the run of the executor over `entities` for a builder with `config`; the host
\* runs one call at a time and its clock stands still during a call
SaveWith(config, mode, entities) ==
    /\ pc = "idle"
    /\ \E r \in {BuilderExecute(db, mode, config, entities, clock)} :
           /\ db' = r.db
           /\ returned' = r.result
           /\ items' = r.items
           /\ printed' = Printed(r.items)
           /\ createdKeys' =
                  IF mode = "Create"
                  THEN createdKeys \cup {r.items[i].key : i \in {j \in 1..Len(r.items) : r.items[j].ok}}
                  ELSE createdKeys
    /\ call' = [mode |-> mode, entities |-> entities, now |-> clock,
                debug |-> config.debug]
    /\ before' = db
    /\ pc' = "done"
    /\ UNCHANGED <<clock, callers, aside>>

\* SaveBuilder::new(db, mode) and the run of the executor over `entities`
Save(mode, entities) == SaveWith(SaveBuilderConfig(FALSE), mode, entities)

\* SaveBuilder::from_entity
FromEntity ==
    /\ pc = "idle"
    /\ \E mode \in SaveModes, e \in Entities : Save(mode, <<e>>)

\* SaveBuilder::from_entities: the entities of one type, so of one path
FromEntities ==
    /\ pc = "idle"
    /\ \E mode \in SaveModes, path \in Paths, n \in (0..MaxBatch) \ {1} :
           \E es \in [1..n -> {e \in Entities : e.path = path}] : Save(mode, es)

\* the caller is done with the result
Drop ==
    /\ pc \in {"done", "used"}
    /\ pc' = "idle"
    /\ call' = NoCall
    /\ returned' = NoResult
    /\ items' = <<>>
    /\ before' = db
    /\ accessed' = NoAccess
    /\ printed' = <<>>
    /\ UNCHANGED <<db, clock, createdKeys, callers, childIndex, rq, tree, iter>>

\* time passes between calls
Tick ==
    /\ pc = "idle"
    /\ running = Nobody
    /\ clock < MaxTime
    /\ clock' = clock + 1
    /\ UNCHANGED <<db, pc, call, returned, items, before, createdKeys, printed,
                   callers, aside>>

\* saves of one entity at a time
Next == FromEntity \/ Drop \/ Tick

Spec == Init /\ [][Next]_vars

\* saves of one entity and of batches
NextBatch == FromEntity \/ FromEntities \/ Drop \/ Tick

SpecBatch == Init /\ [][NextBatch]_vars

\* SaveBuilder::new(db, mode).debug().from_entity(e)
FromEntityDebug ==
    /\ pc = "idle"
    /\ \E mode \in SaveModes, e \in Entities :
           SaveWith(SaveBuilderConfig(TRUE), mode, <<e>>)

\* saves of one entity, with the debug context enabled or not
NextDebug == FromEntity \/ FromEntityDebug \/ Drop \/ Tick

SpecDebug == Init /\ [][NextDebug]_vars

\* the caller uses one of the single-item accessors on the result of the call
Access ==
    /\ pc = "done"
    /\ returned.ok
    /\ \/ accessed' = query_row(returned.results)
       \/ \E E \in Paths : accessed' = entity_row(E, returned.results)
       \/ \E E \in Paths : accessed' = entity_of(E, returned.results)
    /\ pc' = "used"
    /\ UNCHANGED <<db, clock, call, returned, items, before, createdKeys, printed,
                   callers, childIndex, rq, tree, iter>>

\* saves of one entity and of batches whose result the caller reads
NextResult == FromEntity \/ FromEntities \/ Access \/ Drop \/ Tick

SpecResult == Init /\ [][NextResult]_vars

\* request(): root_id()? and the call to the root, which suspends the caller;
\* without a root id the error is returned at once and nothing is sent
SendChecked(fn, path, request, rootKnown, check) ==
    /\ rq.pc = "idle"
    /\ rq' = IF rootKnown
             THEN [pc |-> "awaiting", fn |-> fn, path |-> path, request |-> request,
                   calls |-> 1, reply |-> NoReturn, ret |-> NoReturn,
                   index0 |-> childIndex, check |-> check]
             ELSE [pc |-> "returned", fn |-> fn, path |-> path, request |-> NotSent,
                   calls |-> 0, reply |-> NoReturn, ret |-> Err("NoRootId"),
                   index0 |-> childIndex, check |-> check]
    /\ UNCHANGED <<childIndex, local>>

Send(fn, path, request, rootKnown) ==
    SendChecked(fn, path, request, rootKnown, NoCheck)

\* request_canister_create, up to the await
RequestCanisterCreate ==
    /\ rq.pc = "idle"
    /\ \E path \in CanisterPaths, rootKnown \in BOOLEAN :
           Send("request_canister_create", path, NewCanisterCreate(path), rootKnown)

\* request_canister_upgrade, up to the await
RequestCanisterUpgrade ==
    /\ rq.pc = "idle"
    /\ \E id \in Principals, path \in CanisterPaths, rootKnown \in BOOLEAN :
           Send("request_canister_upgrade", path, NewCanisterUpgrade(id, path), rootKnown)

\* request_cycles, up to the await or to its return when the schema is missing or
\* no cycles are needed
RequestCycles ==
    /\ rq.pc = "idle"
    /\ \E schemaKnown \in BOOLEAN, rootKnown \in BOOLEAN,
          balance \in 0..MaxCycles, initial_cycles \in 0..MaxCycles,
          min_cycles \in 0..MaxCycles :
           LET cycles_needed == CyclesNeeded(balance, initial_cycles, min_cycles)
               check == Check(TRUE, rootKnown, balance, initial_cycles, min_cycles)
               back(ret, read) ==
                   [pc |-> "returned", fn |-> "request_cycles", path |-> "",
                    request |-> NotSent, calls |-> 0, reply |-> NoReturn,
                    ret |-> ret, index0 |-> childIndex, check |-> read]
           IN  IF ~schemaKnown
               THEN /\ rq' = back(Err("NoSchema"), NoCheck)
                    /\ UNCHANGED <<childIndex, local>>
               ELSE IF cycles_needed > 0
               THEN SendChecked("request_cycles", "", NewCycles(cycles_needed),
                                rootKnown, check)
               ELSE /\ rq' = back(Ok("()"),
                               Check(TRUE, FALSE, balance, initial_cycles, min_cycles))
                    /\ UNCHANGED <<childIndex, local>>

\* the call to the root completes with `res` and the requesting function runs
\* to its end
Resume(res) ==
    /\ rq.pc = "awaiting"
    /\ LET created == CreateDone(childIndex, rq.path, res)
       IN  /\ childIndex' = IF rq.fn = "request_canister_create"
                            THEN created.index ELSE childIndex
           /\ rq' = [rq EXCEPT
                        !.pc = "returned",
                        !.reply = res,
                        !.ret = CASE rq.fn = "request_canister_create" -> created.ret
                                  [] rq.fn = "request_canister_upgrade" -> UpgradeDone(res)
                                  [] OTHER -> CyclesDone(res)]
    /\ UNCHANGED local

\* the call to the root completes, with whatever a root can answer
Reply ==
    /\ rq.pc = "awaiting"
    /\ \E res \in Replies : Resume(res)

\* the call to the root completes when the root runs response(): the call itself
\* fails, or it carries back what response returned for the request sent
RootReply ==
    /\ rq.pc = "awaiting"
    /\ \E delivered \in BOOLEAN, wasm \in BOOLEAN, done \in BOOLEAN,
          new_canister_id \in Principals :
           Resume(IF delivered
                  THEN response(rq.request, wasm, done, new_canister_id)
                  ELSE Err("CallFailed"))

\* the caller is done with what the request returned
Forget ==
    /\ rq.pc = "returned"
    /\ rq' = NoRequest
    /\ UNCHANGED <<childIndex, local>>

\* the requests a canister sends to the root
NextRequest ==
    RequestCanisterCreate \/ RequestCanisterUpgrade \/ RequestCycles \/ Reply \/ Forget

SpecRequest == Init /\ [][NextRequest]_vars

\* the requests a canister sends to a root that answers them with response()
NextRoot ==
    RequestCanisterCreate \/ RequestCanisterUpgrade \/ RequestCycles
        \/ RootReply \/ Forget

SpecRoot == Init /\ [][NextRoot]_vars

\* insert (of the wrapped map, through DerefMut): needs the map unborrowed
MapInsert ==
    /\ iter.kind = ""
    /\ \E k \in MapKeys, v \in MapValues :
           tree' = [n \in DOMAIN tree \cup {k} |-> IF n = k THEN v ELSE tree[n]]
    /\ iter' = NoIter
    /\ UNCHANGED mapless

\* BTreeMap::clear
MapClear ==
    /\ iter.kind = ""
    /\ tree' = <<>>
    /\ iter' = NoIter
    /\ UNCHANGED mapless

\* keys() or values(): a new iterator over the map, which it borrows
MapIter ==
    /\ iter.kind = ""
    /\ \E kind \in {"keys", "values"} :
           iter' = [kind |-> kind, pos |-> 0, out |-> <<>>, ended |-> FALSE,
                    tree0 |-> tree, last |-> iter.last]
    /\ UNCHANGED <<tree, mapless>>

\* Iterator::next: the item after the ones yielded so far, or None at the end
IterNext ==
    /\ iter.kind # ""
    /\ ~iter.ended
    /\ iter' = IF iter.pos < Len(Items(iter.kind, tree))
               THEN [iter EXCEPT !.pos = @ + 1,
                                 !.out = Append(@, Items(iter.kind, tree)[iter.pos + 1])]
               ELSE [iter EXCEPT !.ended = TRUE]
    /\ UNCHANGED <<tree, mapless>>

\* the iterator is dropped, at its end or before
IterDrop ==
    /\ iter.kind # ""
    /\ iter' = [NoIter EXCEPT !.last = IF iter.ended
                                       THEN [kind |-> iter.kind, out |-> iter.out]
                                       ELSE iter.last]
    /\ UNCHANGED <<tree, mapless>>

\* a map that is written to and iterated over
NextMap == MapInsert \/ MapClear \/ MapIter \/ IterNext \/ IterDrop

SpecMap == Init /\ [][NextMap]_vars

\* a caller's save starts: the host runs execute_one for it, up to the return
\* of an early error or to the conflict-check read
Call(c) ==
    /\ pc = "idle"
    /\ running = Nobody
    /\ proc[c].pc = "none"
    /\ \E mode \in SaveModes, e \in RaceEntities :
           LET p == ReadPhase(db, mode, DefaultOptions, e, clock)
           IN  IF p.failed
               THEN /\ lastRet' = Ret(c, mode, p, None, p.item)
                    /\ UNCHANGED <<proc, running>>
               ELSE /\ proc' = [proc EXCEPT ![c] = [pc |-> "got", mode |-> mode, p |-> p]]
                    /\ running' = IF ExecuteOneSuspends THEN Nobody ELSE c
                    /\ UNCHANGED lastRet
    /\ UNCHANGED <<db, clock, pc, call, returned, items, before, createdKeys,
                   printed, aside>>

\* the save goes on from the match on the mode to the insert, and returns
Finish(c) ==
    /\ proc[c].pc = "got"
    /\ running = IF ExecuteOneSuspends THEN Nobody ELSE c
    /\ LET mode == proc[c].mode
           p == proc[c].p
           r == WritePhase(db, mode, p)
       IN  /\ db' = r.db
           /\ lastRet' = Ret(c, mode, p, StoreGet(db, p.store_path, p.key), r.item)
           /\ createdKeys' = IF mode = "Create" /\ r.item.ok
                              THEN createdKeys \cup {p.key} ELSE createdKeys
    /\ proc' = [proc EXCEPT ![c] = NoPending]
    /\ running' = Nobody
    /\ UNCHANGED <<clock, pc, call, returned, items, before, printed, aside>>

\* saves issued by several callers
NextCallers == (\E c \in Callers : Call(c) \/ Finish(c)) \/ Tick

SpecCallers == Init /\ [][NextCallers]_vars

\* ------------------------------------------------- reading a finished call

\* the entities the call ran through execute_one
Ran == 1..Len(items)

\* the store entity i was bound for
ItemStore(i) == ResolveStore(items[i].entity.path)

\* entity i got as far as the conflict check: key and store path resolved, the
\* entity validated and serialized
Reached(i) ==
    /\ items[i].key # NoKey
    /\ CanResolveStore(items[i].entity.path)
    /\ Validate(items[i].entity)
    /\ CanSerialize(items[i].entity)

\* the entities before i that wrote to entity i's key
WritersBefore(i) ==
    {j \in 1..(i - 1) :
        items[j].ok /\ items[j].key = items[i].key /\ ItemStore(j) = ItemStore(i)}

Last(S) == CHOOSE j \in S : \A k \in S : k <= j

\* what the store held at entity i's key when entity i started
PriorValue(i) ==
    IF WritersBefore(i) # {}
    THEN Some(items[Last(WritersBefore(i))].row.value)
    ELSE StoreGet(before, ItemStore(i), items[i].key)

\* entity i is the last of the call to write to its key
LastWriter(i) ==
    /\ items[i].ok
    /\ \A j \in Ran : j > i /\ items[j].ok /\ ItemStore(j) = ItemStore(i)
                      => items[j].key # items[i].key

\* the stores after the rows of the first n entities were inserted into `before`
RECURSIVE Inserted(_)
Inserted(n) ==
    IF n = 0 THEN before
    ELSE StoreInsert(Inserted(n - 1), ItemStore(n), items[n].row.key, items[n].row.value)

\* the key was written by a successful Create before entity i started
CreatedBefore(i) ==
    \/ /\ items[i].key \in createdKeys
       /\ StoreGet(before, ItemStore(i), items[i].key) # None
    \/ /\ call.mode = "Create"
       /\ WritersBefore(i) # {}

\* ------------------------------------------------------------------ claims

\* C1 as stated: after a successful Create at K, every later Create that
\* resolves to K fails with KeyExists and leaves the value at K as it was
C1_CreateExclusive_AsStated ==
    pc = "done" /\ call.mode = "Create" =>
        \A i \in Ran :
            items[i].key # NoKey /\ CreatedBefore(i) =>
                /\ items[i].error = "KeyExists"
                /\ StoreGet(db, ItemStore(i), items[i].key) = PriorValue(i)

\* C1 amended: after a successful Create at K, every later Create that resolves
\* to K fails and leaves the value at K as it was; the error is KeyExists when
\* the entity validates and serializes, and the validation or serialization
\* error raised before the conflict check otherwise
C1_CreateExclusive ==
    pc = "done" /\ call.mode = "Create" =>
        \A i \in Ran :
            items[i].key # NoKey /\ CreatedBefore(i) =>
                /\ ~items[i].ok
                /\ i = Len(items) /\ ~returned.ok /\ returned.error = items[i].error
                /\ Reached(i) => items[i].error = "KeyExists"
                /\ ~Validate(items[i].entity) => items[i].error = "Validation"
                /\ Validate(items[i].entity) /\ ~CanSerialize(items[i].entity)
                       => items[i].error = "Serialize"
                /\ StoreGet(db, ItemStore(i), items[i].key) = PriorValue(i)

C1_Witness ==
    /\ pc = "done" /\ call.mode = "Create"
    /\ \E i \in Ran :
           /\ CreatedBefore(i)
           /\ items[i].error = "KeyExists"
           /\ call.now > PriorValue(i)[1].metadata.created

\* C2 as stated: an Update whose resolved key has no value in the store always
\* fails with KeyNotFound, and the key is still absent afterwards
C2_UpdateNeedsKey_AsStated ==
    pc = "done" /\ call.mode = "Update" =>
        \A i \in Ran :
            /\ items[i].key # NoKey
            /\ CanResolveStore(items[i].entity.path)
            /\ PriorValue(i) = None
            => /\ items[i].error = "KeyNotFound"
               /\ StoreGet(db, ItemStore(i), items[i].key) = None

\* C2 amended: an Update whose resolved key has no value in the store always
\* fails and the key is still absent afterwards; the error is KeyNotFound when
\* the entity validates and serializes, and the validation or serialization
\* error raised before the conflict check otherwise
C2_UpdateNeedsKey ==
    pc = "done" /\ call.mode = "Update" =>
        \A i \in Ran :
            /\ items[i].key # NoKey
            /\ CanResolveStore(items[i].entity.path)
            /\ PriorValue(i) = None
            => /\ ~items[i].ok
               /\ ~returned.ok /\ returned.error = items[i].error
               /\ Reached(i) => items[i].error = "KeyNotFound"
               /\ ~Validate(items[i].entity) => items[i].error = "Validation"
               /\ Validate(items[i].entity) /\ ~CanSerialize(items[i].entity)
                      => items[i].error = "Serialize"
               /\ StoreGet(db, ItemStore(i), items[i].key) = None

C2_Witness ==
    /\ pc = "done" /\ call.mode = "Update"
    /\ \E i \in Ran :
           /\ items[i].error = "KeyNotFound"
           /\ PriorValue(i) = None
           /\ DOMAIN db[ItemStore(i)] # {}

\* C3: a Replace of an entity that resolves, validates and serializes succeeds
\* whether or not the key is present, and the store then holds the newly
\* serialized payload at the resolved key
C3_ReplaceTotal ==
    pc = "done" /\ call.mode = "Replace" =>
        \A i \in Ran :
            Reached(i) =>
                /\ items[i].ok
                /\ items[i].row.key = items[i].key
                /\ items[i].row.value.data = Serialize(items[i].entity)
                /\ LastWriter(i) =>
                       /\ StoreGet(db, ItemStore(i), items[i].key) # None
                       /\ StoreGet(db, ItemStore(i), items[i].key)[1].data
                              = Serialize(items[i].entity)

C3_Witness ==
    /\ pc = "done" /\ call.mode = "Replace"
    /\ \E i \in Ran :
           /\ items[i].ok
           /\ PriorValue(i) # None
           /\ PriorValue(i)[1].data # items[i].row.value.data
           /\ StoreGet(db, ItemStore(i), items[i].key) = Some(items[i].row.value)

\* C4: a Replace whose serialized payload is byte-identical to the value already
\* stored at the key leaves that value as it was: created and modified are
\* those the earlier save set, whatever the clock reads now
C4_IdempotentRewrite ==
    pc = "done" /\ call.mode = "Replace" =>
        \A i \in Ran :
            /\ items[i].ok
            /\ PriorValue(i) # None
            /\ PriorValue(i)[1].data = Serialize(items[i].entity)
            => /\ items[i].row.value = PriorValue(i)[1]
               /\ LastWriter(i) =>
                      StoreGet(db, ItemStore(i), items[i].key) = PriorValue(i)

C4_Witness ==
    /\ pc = "done" /\ call.mode = "Replace"
    /\ \E i \in Ran :
           /\ items[i].ok
           /\ PriorValue(i) # None
           /\ PriorValue(i)[1].data = Serialize(items[i].entity)
           /\ call.now > PriorValue(i)[1].metadata.modified
           /\ StoreGet(db, ItemStore(i), items[i].key) = PriorValue(i)

\* C5: a save that writes to an absent key stores created = modified = now; a
\* save that overwrites a value stores its created, and modified = now if the
\* payload bytes differ from the stored ones, the stored modified otherwise
C5_MetadataRule ==
    pc = "done" =>
        \A i \in Ran :
            items[i].ok =>
                LET old == PriorValue(i)
                    new == items[i].row.value
                IN  /\ new.data = Serialize(items[i].entity)
                    /\ old = None =>
                           /\ new.metadata.created = call.now
                           /\ new.metadata.modified = call.now
                    /\ old # None =>
                           /\ new.metadata.created = old[1].metadata.created
                           /\ new.data # old[1].data =>
                                  new.metadata.modified = call.now
                           /\ new.data = old[1].data =>
                                  new.metadata.modified = old[1].metadata.modified
                    /\ LastWriter(i) =>
                           StoreGet(db, ItemStore(i), items[i].key) = Some(new)

\* the third save of the example: created T0, rewritten unchanged, and now
\* overwritten with other bytes at T2
C5_Witness ==
    /\ pc = "done" /\ call.mode = "Replace"
    /\ \E i \in Ran :
           /\ items[i].ok
           /\ PriorValue(i) # None
           /\ PriorValue(i)[1].data # items[i].row.value.data
           /\ PriorValue(i)[1].metadata.created < call.now
           /\ items[i].row.value.metadata.created = PriorValue(i)[1].metadata.created
           /\ items[i].row.value.metadata.modified = call.now

\* C6: once a key is present its created timestamp never decreases, whatever
\* the save does (any mode, one entity or a batch, succeeding or failing)
C6_CreatedNeverDecreases ==
    pc = "done" =>
        /\ \A s \in StorePaths : \A k \in DOMAIN before[s] :
               /\ k \in DOMAIN db[s]
               /\ db[s][k].metadata.created >= before[s][k].metadata.created
        /\ \A i \in Ran :
               items[i].ok /\ PriorValue(i) # None =>
                   items[i].row.value.metadata.created
                       >= PriorValue(i)[1].metadata.created

C6_Witness ==
    /\ pc = "done"
    /\ Len(call.entities) = 2
    /\ \E k \in DOMAIN before["users"] :
           /\ before["users"][k].metadata.created > 0
           /\ db["users"][k] # before["users"][k]

\* C9: an entity whose save fails leaves the stores as they were when it
\* started, and execute_one writes only in its last step, after all the others
C9_FailureLeavesStore ==
    pc = "done" =>
        /\ \A i \in Ran :
               /\ items[i].ok =>
                      /\ items[i].steps[Len(items[i].steps)] = "insert"
                      /\ Reached(i)
               /\ ~items[i].ok =>
                      /\ i = Len(items)
                      /\ \A n \in 1..Len(items[i].steps) : items[i].steps[n] # "insert"
                      /\ db = Inserted(i - 1)
        /\ Len(call.entities) = 1 /\ ~returned.ok => db = before

C9_Witness ==
    /\ pc = "done"
    /\ ~returned.ok
    /\ returned.error = "KeyExists"
    /\ db = before
    /\ DOMAIN db["users"] # {}

\* the key and the store entity k of the call is bound for, run or not
BoundKey(k) ==
    LET e == PreMutate(call.mode, DefaultOptions, call.entities[k])
    IN  ResolveKey(e.path, CompositeKey(e))

BoundStore(k) ==
    ResolveStore(PreMutate(call.mode, DefaultOptions, call.entities[k]).path)

\* none of the entities 1..n wrote to the key of entity k
Unwritten(k, n) ==
    \A j \in 1..n : ~(items[j].key = BoundKey(k) /\ ItemStore(j) = BoundStore(k))

\* the call is a batch whose entity i > 1 is the first to fail, on validation
FailsValidationAt(i) ==
    /\ pc = "done"
    /\ Len(call.entities) >= 2
    /\ i = Len(items)
    /\ i > 1
    /\ items[i].error = "Validation"

\* C7: when entity i > 1 of a batch is the first to fail validation, the entities
\* 1..i-1 are committed and visible in the store, nothing they committed is rolled
\* back, and neither entity i nor any later one was written: the stores are
\* those the entities 1..i-1 left, and a key only entity i or a later one is bound
\* for holds what it held before the call (nothing, if it was absent)
C7_BatchFailFast ==
    \A i \in 1..MaxBatch :
        FailsValidationAt(i) =>
            /\ ~returned.ok /\ returned.error = "Validation"
            /\ \A j \in 1..(i - 1) :
                   /\ items[j].ok
                   /\ LET same == {m \in 1..(i - 1) : items[m].key = items[j].key}
                      IN  StoreGet(db, ItemStore(j), items[j].key)
                              = Some(items[Last(same)].row.value)
            /\ db = Inserted(i - 1)
            /\ \A k \in i..Len(call.entities) :
                   Unwritten(k, i - 1) =>
                       StoreGet(db, BoundStore(k), BoundKey(k))
                           = StoreGet(before, BoundStore(k), BoundKey(k))

\* the second of three entities fails validation; the first is committed, the
\* third is valid and bound for a key that stays absent
C7_Witness ==
    /\ FailsValidationAt(2)
    /\ Len(call.entities) = 3
    /\ StoreGet(before, ItemStore(1), items[1].key) = None
    /\ StoreGet(db, ItemStore(1), items[1].key) = Some(items[1].row.value)
    /\ Validate(Sanitize(call.entities[3]))
    /\ CanSerialize(call.entities[3])
    /\ BoundKey(3) # items[1].key
    /\ CanResolveKey(call.entities[3].path, BoundKey(3).ck)
    /\ StoreGet(db, BoundStore(3), BoundKey(3)) = None

\* the call is a batch [A, B] where A is saved and B fails validation
ValidThenInvalid ==
    /\ pc = "done"
    /\ Len(call.entities) = 2
    /\ Len(items) = 2
    /\ items[1].ok
    /\ items[2].error = "Validation"

\* C8 as stated: the result of the call contains a committed row for A, the call
\* returns a validation error for B, and a get for B's key returns absent
C8_ValidThenInvalid_AsStated ==
    ValidThenInvalid =>
        /\ \E n \in 1..Len(returned.results) : returned.results[n] = items[1].row
        /\ ~returned.ok /\ returned.error = "Validation"
        /\ StoreGet(db, ItemStore(2), items[2].key) = None

\* C8 amended: the call returns the validation error for B and no rows; A's row
\* is committed all the same and a get for A's key returns it; a get for B's key
\* returns what it returned before the call (absent, if B's key was absent),
\* unless B's key is A's key, where it returns A's row
C8_ValidThenInvalid ==
    ValidThenInvalid =>
        /\ ~returned.ok /\ returned.error = "Validation"
        /\ returned.key = items[2].key
        /\ returned.results = <<>>
        /\ StoreGet(db, ItemStore(1), items[1].key) = Some(items[1].row.value)
        /\ StoreGet(db, ItemStore(2), items[2].key)
               = IF items[2].key = items[1].key
                 THEN Some(items[1].row.value)
                 ELSE StoreGet(before, ItemStore(2), items[2].key)

C8_Witness ==
    /\ ValidThenInvalid
    /\ items[2].key # items[1].key
    /\ StoreGet(before, ItemStore(1), items[1].key) = None
    /\ StoreGet(db, ItemStore(1), items[1].key) = Some(items[1].row.value)
    /\ StoreGet(db, ItemStore(2), items[2].key) = None

\* the order of the steps of execute_one as the specification states it, and
\* as the code runs them
StatedOrder(mode) ==
    PreSteps(mode, DefaultOptions)
    \o <<"data_key", "store", "validate", "serialize", "get", "match", "insert">>

CodeOrder(mode) ==
    PreSteps(mode, DefaultOptions)
    \o <<"data_key", "validate", "serialize", "store", "get", "match", "insert">>

IsPrefix(a, b) == Len(a) <= Len(b) /\ \A n \in 1..Len(a) : a[n] = b[n]

Count(steps, step) == Cardinality({n \in 1..Len(steps) : steps[n] = step})

Position(steps, step) ==
    IF Count(steps, step) = 0 THEN 0
    ELSE CHOOSE n \in 1..Len(steps) :
             steps[n] = step /\ \A m \in 1..(n - 1) : steps[m] # step

\* C11: for every entity the call runs, the on_create hook is invoked exactly
\* once when the mode is Create, before sanitize and before the composite key is
\* read, so the entity sanitized and the key resolved are those of the entity as
\* the hook left it; in Update and Replace the hook is never invoked and the
\* entity keeps the id it was submitted with
C11_OnCreateOnce ==
    pc = "done" =>
        \A i \in Ran :
            LET steps == items[i].steps
                e0 == call.entities[i]
            IN  /\ call.mode = "Create" =>
                       /\ Count(steps, "on_create") = 1
                       /\ Position(steps, "on_create") = 1
                       /\ Position(steps, "sanitize") > 1
                       /\ Position(steps, "data_key") > 1
                       /\ items[i].entity = Sanitize(OnCreate(e0))
                       /\ items[i].key # NoKey =>
                              items[i].key.ck = CompositeKey(OnCreate(e0))
                /\ call.mode # "Create" =>
                       /\ Count(steps, "on_create") = 0
                       /\ items[i].entity = Sanitize(e0)
                       /\ items[i].entity.id = e0.id
                       /\ e0.id = NoId => items[i].key = NoKey

\* a Create of two entities without an id: the hook generated the id of each,
\* the first was written at the generated key and the second found it there
C11_Witness ==
    /\ pc = "done" /\ call.mode = "Create"
    /\ Len(items) = 2
    /\ call.entities[1].id = NoId /\ call.entities[2].id = NoId
    /\ items[1].ok /\ items[1].key.ck = GeneratedId
    /\ Count(items[2].steps, "on_create") = 1
    /\ items[2].key.ck = GeneratedId

\* entity i of the call as submitted (after on_create in Create mode), before
\* sanitize
Submitted(i) ==
    IF call.mode = "Create" THEN OnCreate(call.entities[i]) ELSE call.entities[i]

\* the conflict check lets entity i through
NoConflict(i) ==
    /\ call.mode = "Create" => PriorValue(i) = None
    /\ call.mode = "Update" => PriorValue(i) # None

\* C12: validation is evaluated on the entity as sanitize left it: an entity
\* whose key resolves fails validation exactly when the sanitized entity is
\* invalid, and an entity that is invalid as submitted but valid once sanitized
\* is saved (when nothing else fails), under the key and with the payload of the
\* sanitized entity
C12_ValidatePostSanitize ==
    pc = "done" =>
        \A i \in Ran :
            LET raw == Submitted(i)
                e == Sanitize(raw)
            IN  /\ items[i].entity = e
                /\ items[i].key # NoKey =>
                       (items[i].error = "Validation" <=> ~Validate(e))
                /\ /\ ~Validate(raw) /\ Validate(e)
                   /\ CanResolveKey(e.path, CompositeKey(e))
                   /\ CanSerialize(e)
                   /\ CanResolveStore(e.path)
                   /\ NoConflict(i)
                   => /\ items[i].ok
                      /\ items[i].row.key = ResolveKey(e.path, CompositeKey(e))
                      /\ items[i].row.value.data = Serialize(e)
                      /\ LastWriter(i) =>
                             StoreGet(db, ItemStore(i), items[i].key)
                                 = Some(items[i].row.value)

\* an entity that is invalid as submitted was saved with the sanitized payload
C12_Witness ==
    /\ pc = "done"
    /\ \E i \in Ran :
           /\ ~Validate(Submitted(i))
           /\ items[i].ok
           /\ items[i].row.value.data = Serialize(Sanitize(Submitted(i)))
           /\ items[i].row.value.data # Serialize(Submitted(i))
           /\ StoreGet(db, ItemStore(i), items[i].key) = Some(items[i].row.value)

\* the save of one entity in `mode`, run on the stores and at the clock of the
\* call: the stores it leaves and what it returns
RunAs(mode, e) ==
    LET x == BuilderExecute(before, mode, SaveBuilderConfig(FALSE), <<e>>, call.now)
    IN  [db |-> x.db, result |-> x.result]

\* the key a save of `e` in `mode` is bound for, and whether the stores of the
\* call hold a value there
KeyFor(mode, e) ==
    LET m == PreMutate(mode, DefaultOptions, e)
    IN  ResolveKey(m.path, CompositeKey(m))

Resolves(mode, e) ==
    LET m == PreMutate(mode, DefaultOptions, e)
    IN  CanResolveKey(m.path, CompositeKey(m))

PresentFor(mode, e) ==
    /\ Resolves(mode, e)
    /\ StoreGet(before, ResolveStore(e.path), KeyFor(mode, e)) # None

\* the stored values a run leaves and the Rows it returns, whatever its error
Produced(x) == [db |-> x.db, ok |-> x.result.ok, results |-> x.result.results]

\* C13 as stated: for every store state, entity and clock value, a Replace of
\* the entity where the save's key is absent leaves the same stored value and
\* returns the same Row as a Create of that entity, and a Replace on a present
\* key the same as an Update
C13_ReplaceCoincides_AsStated ==
    pc = "done" /\ Len(call.entities) = 1 =>
        LET e0 == call.entities[1]
        IN  /\ Resolves("Create", e0) /\ ~PresentFor("Create", e0) =>
                   Produced(RunAs("Replace", e0)) = Produced(RunAs("Create", e0))
            /\ PresentFor("Replace", e0) =>
                   Produced(RunAs("Replace", e0)) = Produced(RunAs("Update", e0))

\* C13 amended: Replace runs no on_create hook, so on an absent key it coincides
\* with Create on the entity as the hook leaves it: a Create of E leaves the
\* same stored value and returns the same Row as a Replace of on_create(E), and
\* as a Replace of E when the hook leaves E unchanged; a Replace on a present key
\* leaves the same stored value and returns the same Row as an Update
C13_ReplaceCoincides ==
    pc = "done" /\ Len(call.entities) = 1 =>
        LET e0 == call.entities[1]
        IN  /\ call.mode = "Replace" =>
                   RunAs("Replace", e0) = [db |-> db, result |-> returned]
            /\ Resolves("Create", e0) /\ ~PresentFor("Create", e0) =>
                   /\ RunAs("Replace", OnCreate(e0)) = RunAs("Create", e0)
                   /\ OnCreate(e0) = e0 =>
                          RunAs("Replace", e0) = RunAs("Create", e0)
            /\ PresentFor("Replace", e0) =>
                   RunAs("Replace", e0) = RunAs("Update", e0)

\* a Replace that wrote to an absent key, after other saves, at a clock past 0:
\* the row is the one a Create returns
C13_Witness ==
    /\ pc = "done" /\ call.mode = "Replace"
    /\ Len(items) = 1 /\ items[1].ok
    /\ PriorValue(1) = None
    /\ call.now > 0
    /\ DOMAIN before["users"] # {}
    /\ RunAs("Create", call.entities[1]).result.results = <<items[1].row>>

\* C14: when saves are issued by several callers, no write of another save falls
\* between a save's conflict-check read and its insert: while a save is between
\* the two, the store holds at its key what the save read, and finishing it gives
\* what execute_one gives when run in one piece on the stores as they are; a save
\* that returned found at its key, when it came to write, what it had read; and a
\* Create that got as far as the conflict check succeeded exactly when the key
\* was absent then, failing with KeyExists otherwise, so that no Create ever
\* overwrote a stored value
C14_NoInterleaving ==
    /\ \A c \in Callers :
           proc[c].pc = "got" =>
               LET p == proc[c].p
               IN  /\ p.result = StoreGet(db, p.store_path, p.key)
                   /\ WritePhase(db, proc[c].mode, p)
                          = ExecuteOne(db, proc[c].mode, SaveBuilderConfig(FALSE),
                                       p.entity, p.now)
    /\ lastRet.reached =>
           /\ lastRet.prior = lastRet.read
           /\ lastRet.mode = "Create" =>
                  /\ lastRet.ok <=> lastRet.prior = None
                  /\ ~lastRet.ok => lastRet.error = "KeyExists"

\* two callers' Creates for one key: the first to run wrote it, and the other,
\* run after it, found it there and failed with KeyExists
C14_Witness ==
    /\ lastRet.caller = "c2"
    /\ lastRet.mode = "Create"
    /\ lastRet.error = "KeyExists"
    /\ lastRet.key \in createdKeys
    /\ proc["c1"].pc = "got"
    /\ proc["c1"].mode = "Create"
    /\ proc["c1"].p.key # lastRet.key
    /\ proc["c1"].p.result = None

\* C15: a batch save that succeeds returns exactly one Row per input entity, in
\* input order; the i-th Row is the one execute_one built for the i-th entity
\* (its key, its serialized payload), it is the (key, value) pair inserted at
\* that entity's commit, so the stores after the call are the stores before it
\* with the returned Rows inserted in order, and the store holds the Row's value
\* at its key unless a later entity of the batch wrote to the same key
C15_BatchRows ==
    pc = "done" /\ returned.ok =>
        /\ Len(returned.results) = Len(call.entities)
        /\ Len(items) = Len(call.entities)
        /\ \A i \in 1..Len(call.entities) :
               LET row == returned.results[i]
               IN  /\ items[i].ok
                   /\ row = items[i].row
                   /\ row.key = BoundKey(i)
                   /\ row.value.data
                          = Serialize(PreMutate(call.mode, DefaultOptions, call.entities[i]))
                   /\ StoreGet(Inserted(i), BoundStore(i), BoundKey(i)) = Some(row.value)
                   /\ LastWriter(i) =>
                          StoreGet(db, BoundStore(i), BoundKey(i)) = Some(row.value)
        /\ db = Inserted(Len(call.entities))

\* a batch of three entities saved over a value stored earlier: three Rows in
\* input order, each with the payload of its entity, the second differing from
\* the first and the third
C15_Witness ==
    /\ pc = "done" /\ returned.ok
    /\ Len(call.entities) = 3
    /\ Len(returned.results) = 3
    /\ returned.results[1].value.data # returned.results[2].value.data
    /\ returned.results[3].value.data # returned.results[2].value.data
    /\ returned.results[1].value.metadata.created < call.now
    /\ returned.results[2].value.metadata.modified = call.now

\* C16: a save of an empty batch succeeds with no Row and leaves the stores as
\* they were; on its result query_row, entity_row and entity each fail with
\* NoResultsFound; on a result that holds Rows each of them uses the first Row:
\* query_row returns it as a QueryRow, entity_row and entity decode it (and fail
\* with a decode error, never with NoResultsFound, when it is not a row of the
\* type asked for)
C16_EmptyBatch ==
    /\ pc \in {"done", "used"} /\ Len(call.entities) = 0 =>
           /\ returned.ok
           /\ returned.results = <<>>
           /\ items = <<>>
           /\ db = before
    /\ pc = "used" =>
           /\ accessed.accessor \in {"query_row", "entity_row", "entity"}
           /\ returned.results = <<>> =>
                  /\ ~accessed.ok
                  /\ accessed.error = "NoResultsFound"
           /\ returned.results # <<>> =>
                  LET row == items[1].row
                      E == accessed.E
                  IN  /\ accessed.error # "NoResultsFound"
                      /\ accessed.accessor = "query_row" =>
                             /\ accessed.ok
                             /\ accessed.value[1].key = row.key
                             /\ accessed.value[1].value.data = row.value.data
                             /\ accessed.value[1].value.metadata = row.value.metadata
                      /\ accessed.accessor # "query_row" =>
                             /\ accessed.ok <=> row.key.path = E
                             /\ ~accessed.ok => accessed.error = "Decode"
                      /\ accessed.accessor = "entity_row" /\ accessed.ok =>
                             /\ accessed.value[1].key = row.key
                             /\ accessed.value[1].value.entity = items[1].entity
                             /\ accessed.value[1].value.metadata = row.value.metadata
                      /\ accessed.accessor = "entity" /\ accessed.ok =>
                             accessed.value[1] = items[1].entity

\* the result of an empty batch, saved into stores that hold values already,
\* asked for its entity
C16_Witness ==
    /\ pc = "used"
    /\ Len(call.entities) = 0
    /\ returned.ok
    /\ DOMAIN db["users"] # {}
    /\ accessed.accessor = "entity"
    /\ accessed.error = "NoResultsFound"

\* the Response variant that answers each requesting function
Expected(fn) ==
    CASE fn = "request_canister_create" -> "CanisterCreate"
      [] fn = "request_canister_upgrade" -> "CanisterUpgrade"
      [] OTHER -> "Cycles"

\* the request got a Response of another variant than the one that answers it
Mismatched ==
    /\ rq.pc = "returned"
    /\ rq.reply.ok
    /\ rq.reply.value[1].variant # Expected(rq.fn)

\* C17: for each of request_canister_create, request_canister_upgrade and
\* request_cycles, a Response whose variant does not match the request kind
\* surfaces to the caller as RequestError::InvalidResponse embedding that Response
C17_InvalidResponse ==
    Mismatched => rq.ret = InvalidResponse(rq.reply.value[1])

\* the remote call answered Response::CanisterCreate(id)
Created == rq.reply.ok /\ rq.reply.value[1].variant = "CanisterCreate"

\* C18: request_canister_create leaves the child index alone while the remote
\* call is under way, adds (new id, path) to it exactly when the call returned
\* Response::CanisterCreate(id), and otherwise returns the error (the call's, the
\* root's, or InvalidResponse for another variant) with the child index as it
\* was, after a single remote call at most
C18_IndexAfterCreate ==
    /\ rq.pc = "awaiting" => childIndex = rq.index0 /\ rq.calls = 1
    /\ rq.pc = "returned" /\ rq.fn = "request_canister_create" =>
           /\ rq.calls <= 1
           /\ rq.calls = 0 => rq.reply = NoReturn
           /\ Created =>
                  /\ rq.calls = 1
                  /\ childIndex = AddCanister(rq.index0, rq.reply.value[1].id, rq.path)
                  /\ childIndex[rq.reply.value[1].id] = rq.path
                  /\ rq.ret = Ok(rq.reply.value[1].id)
           /\ ~Created =>
                  /\ childIndex = rq.index0
                  /\ ~rq.ret.ok
                  /\ rq.reply.ok => rq.ret = InvalidResponse(rq.reply.value[1])
                  /\ rq.calls = 1 /\ ~rq.reply.ok => rq.ret = rq.reply

\* a creation that succeeded remotely, for a canister the index did not hold
C18_Witness ==
    /\ rq.pc = "returned"
    /\ rq.fn = "request_canister_create"
    /\ Created
    /\ DOMAIN rq.index0 # {}
    /\ rq.reply.value[1].id \notin DOMAIN rq.index0
    /\ childIndex[rq.reply.value[1].id] = rq.path

\* what execute_one returned for an entity, the printed lines aside
Untraced(done) == [i \in 1..Len(done) |-> [done[i] EXCEPT !.trace = <<>>]]

\* C19: a save built with debug() returns the same result or error and leaves
\* the same stores as the save of the same entities in the same mode, on the
\* same stores and at the same clock, built without it; the two differ only in
\* the lines printed: one per entity whose key resolved, naming the mode and the
\* key, with debug(), and none without
C19_DebugObservational ==
    pc = "done" =>
        LET plain == BuilderExecute(before, call.mode, SaveBuilderConfig(FALSE),
                                    call.entities, call.now)
        IN  /\ plain.db = db
            /\ plain.result = returned
            /\ plain.items = Untraced(items)
            /\ ~call.debug => printed = <<>>
            /\ call.debug =>
                   /\ Len(printed) = Cardinality({i \in Ran : items[i].key # NoKey})
                   /\ \A i \in Ran :
                          items[i].key # NoKey =>
                              items[i].trace = <<[mode |-> call.mode, key |-> items[i].key]>>

\* a save with debug() of an invalid entity: the line was printed and the
\* validation error returned, as without debug()
C19_Witness ==
    /\ pc = "done"
    /\ call.debug
    /\ printed # <<>>
    /\ returned.error = "Validation"
    /\ DOMAIN db["users"] # {}
    /\ db = before

\* the keys the map holds, in ascending order
SortedKeys ==
    CHOOSE keys \in [1..Cardinality(DOMAIN tree) -> DOMAIN tree] :
        \A i, j \in 1..Cardinality(DOMAIN tree) : i < j => keys[i] < keys[j]

\* C20: an iterator of keys() or values() yields, in ascending key order, the
\* items of the entries the map holds: what it has yielded is at every moment the
\* first items of that order (the i-th key, or the value of the i-th key), at
\* its end it has yielded exactly one item per entry and no more; the map is as
\* it was when the iterator was made; and an iterator made after another one
\* starts from the first entry and yields the same items again
C20_OrderedIteration ==
    iter.kind # "" =>
        /\ tree = iter.tree0
        /\ Len(iter.out) = iter.pos
        /\ iter.pos <= Cardinality(DOMAIN tree)
        /\ \A i \in 1..Len(iter.out) :
               iter.out[i] = IF iter.kind = "keys"
                             THEN SortedKeys[i] ELSE tree[SortedKeys[i]]
        /\ iter.ended =>
               /\ Len(iter.out) = Cardinality(DOMAIN tree)
               /\ iter.last.kind = iter.kind => iter.out = iter.last.out

\* a second values() iterator over a map of three entries given in another
\* order than that of their keys, at its end
C20_Witness ==
    /\ iter.kind = "values"
    /\ iter.ended
    /\ iter.last.kind = "values"
    /\ Cardinality(DOMAIN tree) = 3
    /\ iter.out[1] # iter.out[2]
    /\ iter.out[1] = tree[1]
    /\ iter.out[3] = tree[3]

\* entity k of the call, as the hooks leave it, resolves, validates and
\* serializes, and its path is registered
Saveable(k) ==
    LET e == PreMutate(call.mode, DefaultOptions, call.entities[k])
    IN  /\ CanResolveKey(e.path, CompositeKey(e))
        /\ Validate(e)
        /\ CanSerialize(e)
        /\ CanResolveStore(e.path)

\* the call is a batch of two entities that resolve to one key, which the store
\* did not hold when the call started
TwoResolvingToAbsentKey ==
    /\ pc = "done"
    /\ Len(call.entities) = 2
    /\ \A k \in 1..2 :
           LET e == PreMutate(call.mode, DefaultOptions, call.entities[k])
           IN  CanResolveKey(e.path, CompositeKey(e)) /\ CanResolveStore(e.path)
    /\ BoundKey(1) = BoundKey(2)
    /\ BoundStore(1) = BoundStore(2)
    /\ StoreGet(before, BoundStore(1), BoundKey(1)) = None

\* the first two entities of the call are saveable and bound for one key, which
\* the store did not hold when the call started
TwoForAbsentKey ==
    /\ pc = "done"
    /\ Len(call.entities) >= 2
    /\ Saveable(1) /\ Saveable(2)
    /\ BoundKey(1) = BoundKey(2)
    /\ BoundStore(1) = BoundStore(2)
    /\ StoreGet(before, BoundStore(1), BoundKey(1)) = None

\* C21 as stated: in a Create batch with two items resolving to the same absent
\* key the first is committed and the second fails with KeyExists; in a Replace
\* batch with two such items the store ends with the second payload and with
\* created equal to the created timestamp written by the first
C21_SequentialBatch_AsStated ==
    /\ TwoResolvingToAbsentKey /\ call.mode = "Create" =>
           /\ items[1].ok
           /\ StoreGet(db, BoundStore(1), BoundKey(1)) = Some(items[1].row.value)
           /\ Len(items) = 2
           /\ items[2].error = "KeyExists"
    /\ TwoResolvingToAbsentKey /\ call.mode = "Replace" =>
           /\ Len(items) = 2
           /\ items[1].ok /\ items[2].ok
           /\ StoreGet(db, BoundStore(2), BoundKey(2)) # None
           /\ StoreGet(db, BoundStore(2), BoundKey(2))[1].data
                  = Serialize(items[2].entity)
           /\ StoreGet(db, BoundStore(2), BoundKey(2))[1].metadata.created
                  = items[1].row.value.metadata.created

\* C21 amended: the entities of a batch are processed one after the other in input
\* order, and the conflict check of each sees what the earlier ones committed: an
\* entity that gets as far as the conflict check passes it exactly when the mode
\* allows the value the last earlier writer left at its key (or the value stored
\* before the call, when there is none), and an entity is run only when all the
\* earlier ones were saved. In a Create batch whose first two entities both
\* validate and serialize and are bound for one absent key, the first is
\* committed and the second fails with KeyExists, the store holding the first's
\* value; in a Replace batch both are saved, and the store, after two entities,
\* holds the payload of the second with the created timestamp the first wrote.
\* An entity that does not validate or serialize fails with that error before
\* the conflict check and ends the batch
C21_SequentialBatch ==
    /\ pc = "done" =>
           \A i \in Ran :
               /\ i > 1 => items[i - 1].ok
               /\ Reached(i) =>
                      LET ts == ModeTimestamps(call.mode, PriorValue(i),
                                               Serialize(items[i].entity), call.now)
                      IN  /\ items[i].ok <=> ts.ok
                          /\ ~items[i].ok => items[i].error = ts.error
                          /\ items[i].ok =>
                                 /\ items[i].row.value.metadata.created = ts.created
                                 /\ items[i].row.value.metadata.modified = ts.modified
               /\ items[i].key # NoKey /\ ~Validate(items[i].entity) =>
                      items[i].error = "Validation" /\ i = Len(items)
               /\ /\ items[i].key # NoKey
                  /\ Validate(items[i].entity) /\ ~CanSerialize(items[i].entity)
                  => items[i].error = "Serialize" /\ i = Len(items)
    /\ TwoForAbsentKey /\ call.mode = "Create" =>
           /\ Len(items) = 2
           /\ items[1].ok
           /\ ~items[2].ok /\ items[2].error = "KeyExists"
           /\ ~returned.ok /\ returned.error = "KeyExists"
           /\ StoreGet(db, BoundStore(1), BoundKey(1)) = Some(items[1].row.value)
           /\ items[1].row.value.data
                  = Serialize(PreMutate("Create", DefaultOptions, call.entities[1]))
    /\ TwoForAbsentKey /\ call.mode = "Replace" =>
           /\ Len(items) >= 2
           /\ items[1].ok /\ items[2].ok
           /\ items[1].row.value.metadata.created = call.now
           /\ items[2].row.value.data = Serialize(Sanitize(call.entities[2]))
           /\ items[2].row.value.metadata.created = items[1].row.value.metadata.created
           /\ Len(call.entities) = 2 =>
                  /\ returned.ok
                  /\ StoreGet(db, BoundStore(2), BoundKey(2)) = Some(items[2].row.value)

\* a Replace batch of two entities with different payloads for one absent key,
\* into stores that hold another key, at a clock past 0
C21_Witness ==
    /\ TwoForAbsentKey
    /\ call.mode = "Replace"
    /\ Len(call.entities) = 2
    /\ call.now > 0
    /\ DOMAIN before[BoundStore(1)] # {}
    /\ items[1].row.value.data # items[2].row.value.data
    /\ StoreGet(db, BoundStore(2), BoundKey(2))[1].data = items[2].row.value.data
    /\ StoreGet(db, BoundStore(2), BoundKey(2))[1].metadata.created = call.now

\* a Create batch of two entities for one absent key: the second found the
\* first's value and failed with KeyExists
C21_WitnessCreate ==
    /\ TwoForAbsentKey
    /\ call.mode = "Create"
    /\ items[2].error = "KeyExists"
    /\ StoreGet(db, BoundStore(1), BoundKey(1)) = Some(items[1].row.value)

\* an entity of the call was saved at key k of store s
WrittenAt(s, k) ==
    \E i \in Ran : items[i].ok /\ ItemStore(i) = s /\ items[i].row.key = k

C23_CreatedBeforeModified ==
    /\ \A s \in StorePaths : \A k \in DOMAIN db[s] :
           /\ db[s][k].metadata.created <= db[s][k].metadata.modified
           /\ db[s][k].metadata.modified <= clock
    /\ pc = "done" =>
           /\ call.now <= clock
           /\ \A i \in Ran :
                  items[i].ok =>
                      /\ items[i].row.value.metadata.created
                             <= items[i].row.value.metadata.modified
                      /\ items[i].row.value.metadata.modified <= call.now

\* a value created at one time, overwritten with other bytes later, and now
\* rewritten with the same bytes later still: created < modified < now
C23_Witness ==
    /\ pc = "done" /\ returned.ok
    /\ \E i \in Ran :
           /\ items[i].row.value.metadata.created < items[i].row.value.metadata.modified
           /\ items[i].row.value.metadata.modified < call.now
           /\ db[ItemStore(i)][items[i].key] = items[i].row.value

\* request_cycles was called and is awaiting the root or has returned
CyclesCalled == rq.pc # "idle" /\ rq.fn = "request_cycles"

\* the balance is under the schema's minimum and under its initial cycles
Short ==
    /\ rq.check.balance < rq.check.min_cycles
    /\ rq.check.initial_cycles > rq.check.balance

\* C24 as stated: request_cycles issues a remote cycles request exactly when
\* balance < min_cycles and initial_cycles > balance, and then asks for
\* initial_cycles - balance; in every other case it sends no request and
\* returns Ok
C24_CyclesRequest_AsStated ==
    CyclesCalled =>
        /\ rq.calls = 1 <=> Short
        /\ rq.calls = 1 =>
               rq.request = NewCycles(rq.check.initial_cycles - rq.check.balance)
        /\ ~Short =>
               /\ rq.calls = 0
               /\ rq.request = NotSent
               /\ rq.pc = "returned"
               /\ rq.ret = Ok("()")

\* C24 amended: when the canister's schema is there, request_cycles hands a
\* cycles request to request() exactly when balance < min_cycles and
\* initial_cycles > balance, for initial_cycles - balance cycles (a subtraction
\* made only when initial_cycles > balance, so it does not go below 0 and the
\* amount is positive); request() sends it to the root in one remote call when
\* the root id is known, and returns that error with nothing sent when it is
\* not; in every other case with a schema nothing is sent and Ok is returned.
\* Without a schema the error of the schema lookup is returned and nothing is
\* sent
C24_CyclesRequest ==
    CyclesCalled =>
        /\ rq.calls <= 1
        /\ rq.calls = 1 <=> rq.check.schema /\ Short /\ rq.check.root
        /\ rq.calls = 1 =>
               /\ rq.request = NewCycles(rq.check.initial_cycles - rq.check.balance)
               /\ rq.request.cycles >= 1
               /\ rq.request.cycles <= MaxCycles
               /\ rq.check.balance + rq.request.cycles = rq.check.initial_cycles
        /\ rq.calls = 0 => rq.request = NotSent /\ rq.pc = "returned"
        /\ rq.check.schema /\ Short /\ ~rq.check.root =>
               rq.calls = 0 /\ rq.ret = Err("NoRootId")
        /\ rq.check.schema /\ ~Short =>
               rq.calls = 0 /\ rq.ret = Ok("()")
        /\ ~rq.check.schema =>
               rq.calls = 0 /\ rq.ret = Err("NoSchema")
        /\ rq.pc = "returned" /\ rq.calls = 1 =>
               rq.ret = CyclesDone(rq.reply)

\* a request for the difference between the initial cycles and a balance that
\* is not 0, answered by the root
C24_Witness ==
    /\ CyclesCalled
    /\ rq.pc = "returned"
    /\ rq.calls = 1
    /\ rq.check.balance > 0
    /\ rq.check.balance < rq.check.min_cycles
    /\ rq.request.cycles = rq.check.initial_cycles - rq.check.balance
    /\ rq.ret = Ok("()")

\* a balance under the minimum but not under the initial cycles: nothing sent
C24_WitnessNoRequest ==
    /\ CyclesCalled
    /\ rq.check.schema
    /\ rq.check.balance < rq.check.min_cycles
    /\ rq.check.initial_cycles < rq.check.balance
    /\ rq.calls = 0
    /\ rq.ret = Ok("()")

\* the Response variant that answers a request of each kind
VariantFor(kind) ==
    CASE kind = "CanisterCreate" -> "CanisterCreate"
      [] kind = "CanisterUpgrade" -> "CanisterUpgrade"
      [] OTHER -> "Cycles"

\* C25: whenever the root's response() succeeds, the Response it returns is of
\* the variant that answers the kind of the request (CanisterCreate(id) for a
\* CanisterCreate request, CanisterUpgrade for CanisterUpgrade, Cycles for
\* Cycles), so that a requester whose request is answered by this handler never
\* gets InvalidResponse: with a successful answer request_canister_create returns
\* the new id, request_canister_upgrade and request_cycles return Ok, and with a
\* failure the requester returns the error it got
C25_RootAnswers ==
    /\ \A kind \in {"CanisterCreate", "CanisterUpgrade", "Cycles"} :
           \A wasm \in BOOLEAN, done \in BOOLEAN, id \in Principals :
               LET req == [kind |-> kind, path |-> "user", canister_id |-> id,
                           cycles |-> 1]
                   res == response(req, wasm, done, id)
               IN  res.ok =>
                       /\ res.value[1].variant = VariantFor(kind)
                       /\ kind = "CanisterCreate" => res.value[1] = ResponseCanisterCreate(id)
    /\ rq.pc = "returned" =>
           /\ rq.ret.error # "InvalidResponse"
           /\ ~Mismatched
           /\ rq.reply.ok =>
                  /\ rq.calls = 1
                  /\ rq.reply.value[1].variant = VariantFor(rq.request.kind)
                  /\ rq.reply.value[1].variant = Expected(rq.fn)
                  /\ rq.ret.ok
                  /\ rq.fn = "request_canister_create" =>
                         rq.ret = Ok(rq.reply.value[1].id)
                  /\ rq.fn # "request_canister_create" => rq.ret = Ok("()")
           /\ rq.calls = 1 /\ ~rq.reply.ok => rq.ret = rq.reply

\* a cycles request answered by the root with Response::Cycles, after a canister
\* was created through the same handler
C25_Witness ==
    /\ rq.pc = "returned"
    /\ rq.fn = "request_cycles"
    /\ rq.reply = Ok(ResponseCycles)
    /\ rq.ret = Ok("()")
    /\ DOMAIN childIndex # {}

====
